---- MODULE Spec2Model ----
(***************************************************************************)
(* PRS FinSight: the transaction ledger and the other tables (db.py), the  *)
(* market data gateway (pricing.py), the holdings engine and the figures   *)
(* of the Dashboard page (app.py), and the NAV table cache (amfi.py).      *)
(*                                                                         *)
(* Spec is the ledger of one user with the page runs that compute its      *)
(* holdings; SpecStore is the store under the writes of several accounts;  *)
(* SpecAmfi is get_amfi_df called as time passes.                          *)
(*                                                                         *)
(* Numbers.  The ledger columns are SQLite REALs and every pandas column   *)
(* is a float64.  The model computes with exact rationals <<n, d>>, d >= 0,*)
(* in lowest terms; d = 0 encodes the IEEE specials: <<0,0>> is NaN (also  *)
(* the None of an all-None object column, which pandas treats as missing), *)
(* <<1,0>> and <<-1,0>> are +inf and -inf.  Rounding error of float64 is   *)
(* outside the model.                                                      *)
(***************************************************************************)
EXTENDS Integers, Sequences, FiniteSets, TLC

(***************************************************************************)
(* Bounds and input sets                                                   *)
(***************************************************************************)
\* Largest number of rows of the transactions table.
MaxTx == 2

\* users.id of the logged-in users that submit transactions.
Users == {1}

\* (symbol, asset type) as entered in the form: A is recorded under two
\* asset types, once in lower case; insert_tx upper-cases the symbol.
InstrumentInputs ==
  { [symbol |-> "A", asset_type |-> "etf"],
    [symbol |-> "A", asset_type |-> "stock"],
    [symbol |-> "a", asset_type |-> "etf"],
    [symbol |-> "B", asset_type |-> "etf"] }

\* The options of the "Txn Type" selectbox.
FormTxnTypes == {"BUY", "SELL", "DIV", "SIP"}

\* txn_type is a free TEXT column: insert_tx stores any string.
AnyTxnTypes == FormTxnTypes \cup {"BONUS"}

\* (units, price, fees) as entered in the three number inputs.
LotInputs ==
  { [units |-> 2, price |-> 1, fees |-> 1],
    [units |-> 0, price |-> 2, fees |-> 1] }

\* Largest number of rows of each of the tables posts, messages, inquiries.
MaxRows == 1

\* users.id of the accounts whose transactions the store holds side by side.
StoreUsers == {1, 2}

\* (units, price, fees) as the number inputs accept them: they set no
\* min_value, so a negative number of units can be entered.
StoreLots ==
  { [units |-> 2, price |-> 1, fees |-> 0],
    [units |-> -1, price |-> 1, fees |-> 0] }

\* Arguments of the write functions of db.py other than insert_tx.
Usernames == {"u"}

WatchSymbols == {"a"}

PostStatuses == {"draft", "published"}

MessageRoles == {"user", "admin"}

SchemeCodes == {7}

\* Closing prices the gateway can report.
QuotePrices == {2}

\* What one yf.Ticker(s).history(...) round trip can do.
QuoteOutcomes ==
  { [kind |-> "raise", close |-> 0], [kind |-> "empty", close |-> 0] }
    \cup { [kind |-> "close", close |-> p] : p \in QuotePrices }

(***************************************************************************)
(* float64 as exact rationals with NaN and infinities                      *)
(***************************************************************************)
Abs(n) == IF n < 0 THEN -n ELSE n

Sign(n) == IF n < 0 THEN -1 ELSE IF n > 0 THEN 1 ELSE 0

RECURSIVE GCD(_, _)
GCD(a, b) == IF b = 0 THEN a ELSE GCD(b, a % b)

\* The float n/d (d may be negative or zero on entry).
Norm(n, d) ==
  IF d = 0 THEN <<Sign(n), 0>>
  ELSE LET g == GCD(Abs(n), Abs(d))
           s == Sign(d)
       IN  <<(s * n) \div g, (s * d) \div g>>

R(n) == <<n, 1>>

NaN == <<0, 0>>

IsNaN(x) == x = NaN

RAdd(x, y) == Norm(x[1] * y[2] + y[1] * x[2], x[2] * y[2])

RSub(x, y) == Norm(x[1] * y[2] - y[1] * x[2], x[2] * y[2])

RMul(x, y) == Norm(x[1] * y[1], x[2] * y[2])

RDiv(x, y) == Norm(x[1] * y[2], x[2] * y[1])

RNeg(x) == <<-x[1], x[2]>>

\* x > 0 as numpy evaluates it: False for NaN.
RGtZero(x) == x[1] > 0

RECURSIVE RSum(_)
RSum(s) == IF s = <<>> THEN R(0) ELSE RAdd(Head(s), RSum(Tail(s)))

\* A sequence given by a rule, as an explicit tuple of its elements.
Rows(f) == f \o <<>>

(***************************************************************************)
(* Strings: str.upper and the lexicographic order of the keys              *)
(***************************************************************************)
\* str.upper on the symbols the model uses.
Upper(s) == CASE s = "a" -> "A" [] s = "b" -> "B" [] OTHER -> s

\* Code point order of the strings the model uses ("A" < "B" < "a" < "b",
\* "etf" < "stock").
StrRank(s) ==
  CASE s = "A" -> 1 [] s = "B" -> 2 [] s = "a" -> 3 [] s = "b" -> 4
    [] s = "etf" -> 1 [] s = "stock" -> 2 [] OTHER -> 0

StrLess(s, t) == StrRank(s) < StrRank(t)

(***************************************************************************)
(* amfi.py: the constants of the NAV table cache                           *)
(***************************************************************************)
\* _CACHE["ttl"], in seconds.
Ttl == 900

\* _CACHE["df"] is None: no table.
NoTable == 0

\* The tables a download can return, told apart by their snapshot number.
AmfiTables == {1, 2}

\* The readings of time.time() the model distinguishes, in seconds; the wall
\* clock may also step back.
ClockStep == 450

MaxClock == 4

StartTime == ClockStep

ClockTimes == { k * ClockStep : k \in 1..MaxClock }

(***************************************************************************)
(* State                                                                   *)
(***************************************************************************)
VARIABLES
  ledger,    \* the transactions table, in id order
  tx,        \* tx_df: the frame the last page run passed to compute_holdings
  snaps,     \* the frame price_snapshot returned to that run
  holdings,  \* the frame compute_holdings returned to that run
  status,    \* "idle": no holdings computed by the last run; "ok"; "error"
  calls,     \* the argument lists of the price_snapshot calls of that run
  metrics,   \* the four figures the Dashboard page shows in that run
  users,          \* the table users
  watchlist,      \* the table watchlist
  posts,          \* the table posts, in id order
  messages,       \* the table messages, in id order
  inquiries,      \* the table inquiries, in id order
  amfi_watchlist, \* the table amfi_watchlist
  cache,     \* amfi.py: _CACHE
  now,       \* amfi.py: what time.time() returns
  amfi_ret   \* amfi.py: how the last get_amfi_df call ended

\* The locals of a page run.
runVars == <<tx, snaps, holdings, status, calls, metrics>>

\* The tables of db.py other than transactions.
otherTables == <<users, watchlist, posts, messages, inquiries, amfi_watchlist>>

\* The state of amfi.py.
amfiVars == <<cache, now, amfi_ret>>

vars == <<ledger, runVars, otherTables, amfiVars>>

(***************************************************************************)
(* db.py: the transactions table                                           *)
(***************************************************************************)
\* The row insert_tx writes: symbol.upper(), float(units), float(price),
\* float(fees).  date and account take no part in any computation and are
\* left out of the row.
insert_tx(user_id, symbol, asset_type, txn_type, units, price, fees) ==
  [user_id |-> user_id, symbol |-> Upper(symbol), asset_type |-> asset_type,
   txn_type |-> txn_type, units |-> R(units), price |-> R(price),
   fees |-> R(fees)]

\* Bug variant: the SELECT without its WHERE clause.
fetch_tx_unscoped(user_id) == ledger

\* SELECT * FROM transactions WHERE user_id=? ORDER BY date, id
fetch_tx(user_id) == SelectSeq(ledger, LAMBDA r : r.user_id = user_id)

(***************************************************************************)
(* pricing.py: price_snapshot                                              *)
(***************************************************************************)
\* One pass of the loop body for symbol s when the gateway answers q:
\* a price gives last = float(close.iloc[-1]), an empty history gives None,
\* an exception is caught and gives a row of None.
SnapRow(s, q) ==
  [symbol |-> s, last |-> IF q.kind = "close" THEN R(q.close) ELSE NaN]

\* Bug variant: without the try/except an exception of the gateway leaves
\* price_snapshot.
price_snapshot_unguarded(symbols, quotes) ==
  [error |-> \E i \in 1..Len(symbols) : quotes[i].kind = "raise",
   rows  |-> Rows([i \in 1..Len(symbols) |-> SnapRow(symbols[i], quotes[i])])]

\* price_snapshot(symbols) when the i-th round trip answers quotes[i]:
\* one row per element of the list, in list order.  No exception leaves it.
price_snapshot(symbols, quotes) ==
  [error |-> FALSE,
   rows  |-> Rows([i \in 1..Len(symbols) |-> SnapRow(symbols[i], quotes[i])])]

(***************************************************************************)
(* app.py: compute_holdings                                                *)
(***************************************************************************)
\* Bug variant: every kind but SELL adds its units.
SignedUnitsElseAdds(txn_type, units) ==
  IF txn_type = "SELL" THEN RNeg(units) ELSE units

\* Lines 125-128: upper-case the symbol, remap SIP to BUY, signed_units.
SignedUnits(txn_type, units) ==
  IF txn_type = "SELL" THEN RNeg(units)
  ELSE IF txn_type = "BUY" THEN units ELSE R(0)

\* Bug variant: line 127 left out, SIP rows are not counted as purchases.
RemapSipDropped(txn_type) == txn_type

RemapSip(txn_type) == IF txn_type = "SIP" THEN "BUY" ELSE txn_type

Normalize(df) ==
  Rows([i \in 1..Len(df) |->
     LET r == df[i]
         t == RemapSip(r.txn_type)
     IN  [symbol |-> Upper(r.symbol), asset_type |-> r.asset_type,
          txn_type |-> t, units |-> r.units, price |-> r.price,
          fees |-> r.fees, signed_units |-> SignedUnits(t, r.units)]])

\* Bug variant: the fees are left out of the cost.
RowCostNoFees(r) == RMul(r.units, r.price)

\* Line 130: cost of a BUY row.
RowCost(r) == RAdd(RMul(r.units, r.price), r.fees)

\* Bug variant: every kind that is neither SELL nor DIV is costed as a BUY.
BuysByExclusion(df) ==
  SelectSeq(df, LAMBDA r : r.txn_type \notin {"SELL", "DIV"})

\* Line 129: the BUY rows.
Buys(df) == SelectSeq(df, LAMBDA r : r.txn_type = "BUY")

\* groupby(["symbol","asset_type"]) : the distinct keys, sorted ascending.
KeyOf(r) == <<r.symbol, r.asset_type>>

KeyLess(k1, k2) ==
  \/ StrLess(k1[1], k2[1])
  \/ k1[1] = k2[1] /\ StrLess(k1[2], k2[2])

RECURSIVE SortedKeys(_)
SortedKeys(S) ==
  IF S = {} THEN <<>>
  ELSE LET m == CHOOSE k \in S : \A o \in S \ {k} : KeyLess(k, o)
       IN  <<m>> \o SortedKeys(S \ {m})

GroupKeys(df) == SortedKeys({KeyOf(df[i]) : i \in 1..Len(df)})

Group(df, k) == SelectSeq(df, LAMBDA r : KeyOf(r) = k)

\* Columns of a frame.
SignedUnitsColumn(rows) == Rows([i \in 1..Len(rows) |-> rows[i].signed_units])

UnitsColumn(rows) == Rows([i \in 1..Len(rows) |-> rows[i].units])

CostColumn(rows) == Rows([i \in 1..Len(rows) |-> RowCost(rows[i])])

LastColumn(rows) == Rows([i \in 1..Len(rows) |-> rows[i].last])

\* df.groupby(...).agg(units=("signed_units","sum")), ks the sorted keys.
NetUnitsBy(df, ks) ==
  Rows([i \in 1..Len(ks) |->
     [symbol |-> ks[i][1], asset_type |-> ks[i][2],
      units |-> RSum(SignedUnitsColumn(Group(df, ks[i])))]])

NetUnits(df) == NetUnitsBy(df, GroupKeys(df))

\* buys.groupby(...).agg(total_units=("units","sum"), total_cost=("cost","sum"))
CostTableBy(buys, ks) ==
  Rows([i \in 1..Len(ks) |->
     [symbol |-> ks[i][1], asset_type |-> ks[i][2],
      total_units |-> RSum(UnitsColumn(Group(buys, ks[i]))),
      total_cost  |-> RSum(CostColumn(Group(buys, ks[i])))]])

CostTable(buys) == CostTableBy(buys, GroupKeys(buys))

\* Bug variant: the division without the guard on total_units.
AvgCostUnguarded(total_units, total_cost) == RDiv(total_cost, total_units)

\* Line 138: np.where(total_units > 0, total_cost / total_units, 0.0)
AvgCost(total_units, total_cost) ==
  IF RGtZero(total_units) THEN RDiv(total_cost, total_units) ELSE R(0)

\* Line 137: the columns total_units, total_cost that the left merge and
\* fillna give the net row n; m holds the rows of cost with the key of n.
MergedCost(m) ==
  IF m = <<>> THEN [total_units |-> R(0), total_cost |-> R(0)]
  ELSE [total_units |-> m[1].total_units, total_cost |-> m[1].total_cost]

CostOfKey(cost, n) ==
  MergedCost(SelectSeq(cost, LAMBDA c : KeyOf(c) = KeyOf(n)))

\* Line 133: the row of net when no row of the ledger is a BUY.
ZeroBasisRow(n) ==
  [symbol |-> n.symbol, asset_type |-> n.asset_type, units |-> n.units,
   avg_cost |-> R(0), invested |-> R(0)]

\* Bug variant: the cost is divided by the net units left after the SELLs
\* instead of the gross BUY units.
BasisRowNetUnits(n, c) ==
  [symbol |-> n.symbol, asset_type |-> n.asset_type, units |-> n.units,
   avg_cost |-> AvgCost(n.units, c.total_cost),
   invested |-> c.total_cost]

\* Lines 138-139: the row of net with the merged columns c.
BasisRow(n, c) ==
  [symbol |-> n.symbol, asset_type |-> n.asset_type, units |-> n.units,
   avg_cost |-> AvgCost(c.total_units, c.total_cost),
   invested |-> c.total_cost]

\* Lines 131-139: the frame net with avg_cost and invested.
CostBasisOf(buys, net, cost) ==
  IF buys = <<>>
  THEN Rows([i \in 1..Len(net) |-> ZeroBasisRow(net[i])])
  ELSE Rows([i \in 1..Len(net) |-> BasisRow(net[i], CostOfKey(cost, net[i]))])

CostBasis(df) == CostBasisOf(Buys(df), NetUnits(df), CostTable(Buys(df)))

\* Line 140: net["symbol"].tolist(), the argument of price_snapshot.
SymbolList(net) == Rows([i \in 1..Len(net) |-> net[i].symbol])

\* Bug variant: a missing price is filled with 0 before the valuation.
ValuationZeroFilled(n, last) ==
  LET l == IF IsNaN(last) THEN R(0) ELSE last
  IN  [symbol |-> n.symbol, asset_type |-> n.asset_type, units |-> n.units,
       avg_cost |-> n.avg_cost, invested |-> n.invested, last |-> last,
       value   |-> RMul(n.units, l),
       pnl     |-> RMul(RSub(l, n.avg_cost), n.units),
       pnl_pct |-> IF RGtZero(n.avg_cost)
                   THEN RMul(RSub(RDiv(l, n.avg_cost), R(1)), R(100))
                   ELSE NaN]

\* Bug variant: pnl_pct without the "- 1.0".
ValuationRatioOnly(n, last) ==
  [symbol |-> n.symbol, asset_type |-> n.asset_type, units |-> n.units,
   avg_cost |-> n.avg_cost, invested |-> n.invested, last |-> last,
   value   |-> RMul(n.units, last),
   pnl     |-> RMul(RSub(last, n.avg_cost), n.units),
   pnl_pct |-> IF RGtZero(n.avg_cost)
               THEN RMul(RDiv(last, n.avg_cost), R(100))
               ELSE NaN]

\* Lines 142-144 for one merged row.
Valuation(n, last) ==
  [symbol |-> n.symbol, asset_type |-> n.asset_type, units |-> n.units,
   avg_cost |-> n.avg_cost, invested |-> n.invested, last |-> last,
   value   |-> RMul(n.units, last),
   pnl     |-> RMul(RSub(last, n.avg_cost), n.units),
   pnl_pct |-> IF RGtZero(n.avg_cost)
               THEN RMul(RSub(RDiv(last, n.avg_cost), R(1)), R(100))
               ELSE NaN]

RECURSIVE Flatten(_)
Flatten(ss) == IF ss = <<>> THEN <<>> ELSE Head(ss) \o Flatten(Tail(ss))

\* The rows the left merge makes of the net row n; m holds the rows of
\* snaps with the symbol of n, in the order of snaps.  A row without a
\* partner is kept with last missing.
MergedRows(n, m) ==
  IF m = <<>> THEN <<Valuation(n, NaN)>>
  ELSE Rows([j \in 1..Len(m) |-> Valuation(n, m[j].last)])

\* Line 141: net.merge(snaps[["symbol","last"]], on="symbol", how="left")
\* keeps the order of net and pairs each of its rows with every row of snaps
\* that has the same symbol; lines 142-144 then value each row.
MergeLast(net, srows) ==
  Flatten(Rows([i \in 1..Len(net) |->
     MergedRows(net[i],
                SelectSeq(srows, LAMBDA r : r.symbol = net[i].symbol))]))

\* Bug variant: sort_values("symbol", ascending=False).
RECURSIVE SortBySymbolDescending(_)
SortBySymbolDescending(rows) ==
  IF rows = <<>> THEN <<>>
  ELSE LET i == CHOOSE k \in 1..Len(rows) :
                  \A j \in 1..Len(rows) :
                    ~StrLess(rows[k].symbol, rows[j].symbol)
       IN  <<rows[i]>> \o
             SortBySymbolDescending(SubSeq(rows, 1, i - 1)
                                      \o SubSeq(rows, i + 1, Len(rows)))

\* Line 145: sort_values("symbol").  The frames of the model are far below
\* the 16 rows up to which numpy's default sort is an insertion sort.
RECURSIVE InsertBySymbol(_, _)
InsertBySymbol(sorted, r) ==
  IF sorted = <<>> THEN <<r>>
  ELSE IF StrLess(r.symbol, sorted[Len(sorted)].symbol)
       THEN InsertBySymbol(SubSeq(sorted, 1, Len(sorted) - 1), r)
              \o <<sorted[Len(sorted)]>>
       ELSE Append(sorted, r)

RECURSIVE SortBySymbol(_)
SortBySymbol(rows) ==
  IF rows = <<>> THEN <<>>
  ELSE InsertBySymbol(SortBySymbol(SubSeq(rows, 1, Len(rows) - 1)),
                      rows[Len(rows)])

\* Lines 125-139: the frame net, one row per key.
NetFrame(tx_df) == CostBasis(Normalize(tx_df))

\* Lines 141-145 on the frame net and the answer sn of price_snapshot to the
\* symbol list syms.  error: an exception left the function; calls: the
\* argument lists of the price_snapshot calls made.
Valued(net, syms, sn) ==
  IF sn.error
  THEN [error |-> TRUE, calls |-> <<syms>>, snaps |-> <<>>, out |-> <<>>]
  ELSE [error |-> FALSE, calls |-> <<syms>>, snaps |-> sn.rows,
        out |-> SortBySymbol(MergeLast(net, sn.rows))]

\* Lines 140-145 when the i-th gateway round trip answers quotes[i].
ValueFrame(net, quotes) ==
  Valued(net, SymbolList(net), price_snapshot(SymbolList(net), quotes))

\* Bug variant: the empty frame is not returned early; price_snapshot([])
\* is a frame without columns and line 141 raises KeyError.
HoldingsOfEmptyRejected(tx_df, net, quotes) ==
  IF tx_df = <<>>
  THEN [error |-> TRUE, calls |-> <<>>, snaps |-> <<>>, out |-> <<>>]
  ELSE ValueFrame(net, quotes)

\* compute_holdings(tx_df) with net the frame of lines 125-139: an empty
\* ledger returns the empty frame at once (lines 123-124), without a lookup.
HoldingsOf(tx_df, net, quotes) ==
  IF tx_df = <<>>
  THEN [error |-> FALSE, calls |-> <<>>, snaps |-> <<>>, out |-> <<>>]
  ELSE ValueFrame(net, quotes)

compute_holdings(tx_df, quotes) ==
  HoldingsOf(tx_df, NetFrame(tx_df), quotes)

\* How many round trips compute_holdings makes on a ledger with frame net.
LookupCount(tx_df, net) == IF tx_df = <<>> THEN 0 ELSE Len(net)

\* Bug variant: line 125 without .copy(): lines 126-128 write into the
\* caller's frame.
FrameAfterInPlace(tx_df) == Normalize(tx_df)

\* The caller's tx_df once compute_holdings has returned: line 125 takes a
\* copy, and every assignment of lines 126-130 goes to the copy.
FrameAfter(tx_df) == tx_df

(***************************************************************************)
(* app.py: the figures of the Dashboard page, lines 203-206                *)
(***************************************************************************)
ValueColumn(rows) == Rows([i \in 1..Len(rows) |-> rows[i].value])

InvestedColumn(rows) == Rows([i \in 1..Len(rows) |-> rows[i].invested])

PnlColumn(rows) == Rows([i \in 1..Len(rows) |-> rows[i].pnl])

\* Bug variant: np.sum, which a single NaN turns into NaN.
NanSumPropagating(col) == RSum(col)

\* np.nansum: the sum with every NaN taken as 0.
NanSum(col) ==
  RSum(Rows([i \in 1..Len(col) |-> IF IsNaN(col[i]) THEN R(0) ELSE col[i]]))

\* float(np.nansum(h[...])) if not h.empty else 0.0
Total(h, col) == IF h = <<>> THEN R(0) ELSE NanSum(col)

\* Line 206: (total_value/invested-1.0)*100 if invested>0 else 0.0
ReturnPct(total_value, invested) ==
  IF RGtZero(invested)
  THEN RMul(RSub(RDiv(total_value, invested), R(1)), R(100))
  ELSE R(0)

Figures(total_value, invested, pnl) ==
  [total_value |-> total_value, invested |-> invested, pnl |-> pnl,
   pnl_pct |-> ReturnPct(total_value, invested)]

\* Lines 203-206 on the frame h that compute_holdings returned.
DashboardFigures(h) ==
  Figures(Total(h, ValueColumn(h)), Total(h, InvestedColumn(h)),
          Total(h, PnlColumn(h)))

\* No figures: the run has not reached line 203.
NoFigures == <<>>

(***************************************************************************)
(* amfi.py: get_amfi_df and the cache of the NAV table.  Nothing under     *)
(* src/ calls it from two threads; the calls are taken one at a time.      *)
(***************************************************************************)
\* What _load_from_amfi can do: return a table, or raise (requests.get,
\* raise_for_status, read_csv).
LoadOutcomes ==
  { [kind |-> "raise", df |-> NoTable] }
    \cup { [kind |-> "table", df |-> d] : d \in AmfiTables }

\* Line 63: the cached table is returned.
CacheFresh(force_refresh, t) ==
  /\ ~force_refresh
  /\ cache.df # NoTable
  /\ t - cache.ts < cache.ttl

\* Bug variant: line 67 left out, the time of the download is not kept.
StoredWithoutTime(df, t) == [cache EXCEPT !.df = df]

\* Lines 66-67: _CACHE["df"] = df; _CACHE["ts"] = now
Stored(df, t) == [cache EXCEPT !.df = df, !.ts = t]

\* How a call ended: kind is "cached" (line 64), "loaded" (line 68) or
\* "raised" (the exception of line 65 left the function); df is the table
\* returned; force and at are its argument and its reading of the clock.
CallEnded(kind, df, force_refresh, t) ==
  [kind |-> kind, df |-> df, force |-> force_refresh, at |-> t]

NoCall == CallEnded("none", NoTable, FALSE, 0)

(***************************************************************************)
(* Script runs.  Streamlit runs app.py from top to bottom for one page at  *)
(* a time; tx, snaps and holdings are locals of one run.                   *)
(***************************************************************************)
Init ==
  /\ ledger = <<>>
  /\ tx = <<>>
  /\ snaps = <<>>
  /\ holdings = <<>>
  /\ status = "idle"
  /\ calls = <<>>
  /\ metrics = NoFigures
  /\ users = {}
  /\ watchlist = {}
  /\ posts = <<>>
  /\ messages = <<>>
  /\ inquiries = <<>>
  /\ amfi_watchlist = {}
  /\ cache = [df |-> NoTable, ts |-> 0, ttl |-> Ttl]
  /\ now = StartTime
  /\ amfi_ret = NoCall

\* Transactions page, lines 237-254: the form is submitted with a symbol.
TransactionsPage ==
  \E u \in Users, i \in InstrumentInputs, t \in FormTxnTypes, l \in LotInputs :
    /\ status = "idle"
    /\ Len(ledger) < MaxTx
    /\ ledger' = Append(ledger, insert_tx(u, i.symbol, i.asset_type, t,
                                          l.units, l.price, l.fees))
    /\ UNCHANGED <<runVars, otherTables, amfiVars>>

\* A row with a kind the form does not offer, written through insert_tx.
InsertOtherKind ==
  \E u \in Users, i \in InstrumentInputs, t \in AnyTxnTypes \ FormTxnTypes,
     l \in LotInputs :
    /\ status = "idle"
    /\ Len(ledger) < MaxTx
    /\ ledger' = Append(ledger, insert_tx(u, i.symbol, i.asset_type, t,
                                          l.units, l.price, l.fees))
    /\ UNCHANGED <<runVars, otherTables, amfiVars>>

\* holdings = compute_holdings(tx) returned res (or raised); lines 203-206
\* follow when it returned.
Returned(df, res) ==
  /\ tx' = FrameAfter(df)
  /\ snaps' = res.snaps
  /\ holdings' = res.out
  /\ status' = IF res.error THEN "error" ELSE "ok"
  /\ calls' = res.calls
  /\ metrics' = IF res.error THEN NoFigures ELSE DashboardFigures(res.out)
  /\ UNCHANGED <<ledger, otherTables, amfiVars>>

\* compute_holdings(df), one answer of the gateway per round trip.
HoldingsRun(df, net) ==
  \E quotes \in [1..LookupCount(df, net) -> QuoteOutcomes] :
    Returned(df, HoldingsOf(df, net, quotes))

\* Dashboard page, lines 201-206: tx = fetch_tx(user["id"]);
\* holdings = compute_holdings(tx); the four figures.  (The Portfolio page
\* makes the same two calls at lines 261-262.)
DashboardPage ==
  \E u \in Users :
    /\ status = "idle"
    /\ HoldingsRun(fetch_tx(u), NetFrame(fetch_tx(u)))

\* The run that computed the holdings is over; its locals are gone.
RunEnds ==
  /\ status # "idle"
  /\ tx' = <<>>
  /\ snaps' = <<>>
  /\ holdings' = <<>>
  /\ status' = "idle"
  /\ calls' = <<>>
  /\ metrics' = NoFigures
  /\ UNCHANGED <<ledger, otherTables, amfiVars>>

Next ==
  \/ TransactionsPage
  \/ InsertOtherKind
  \/ DashboardPage
  \/ RunEnds

Spec == Init /\ [][Next]_vars

TypeOK ==
  /\ Len(ledger) <= MaxTx
  /\ status \in {"idle", "ok", "error"}

(***************************************************************************)
(* amfi.py: calls of get_amfi_df as time passes                            *)
(***************************************************************************)
\* get_amfi_df(force_refresh) when time.time() reads now and the download,
\* if it is made, ends as load.
GetAmfiDf ==
  \E force_refresh \in BOOLEAN, load \in LoadOutcomes :
    /\ IF CacheFresh(force_refresh, now)
       THEN /\ amfi_ret' = CallEnded("cached", cache.df, force_refresh, now)
            /\ UNCHANGED cache
       ELSE IF load.kind = "raise"
       THEN /\ amfi_ret' = CallEnded("raised", NoTable, force_refresh, now)
            /\ UNCHANGED cache
       ELSE /\ cache' = Stored(load.df, now)
            /\ amfi_ret' = CallEnded("loaded", load.df, force_refresh, now)
    /\ UNCHANGED <<now, ledger, runVars, otherTables>>

\* Time passes between two calls; the wall clock can also be set back.
ClockMoves ==
  \E t \in ClockTimes \ {now} :
    /\ now' = t
    /\ UNCHANGED <<cache, amfi_ret, ledger, runVars, otherTables>>

NextAmfi ==
  \/ GetAmfiDf
  \/ ClockMoves

SpecAmfi == Init /\ [][NextAmfi]_vars

(***************************************************************************)
(* db.py: every function that writes, each on its table.  The columns id   *)
(* (the position in the table), created_at, updated_at and the free texts  *)
(* are left out of the rows.                                               *)
(***************************************************************************)
\* INSERT INTO users: username is UNIQUE, a second insert raises and leaves
\* the table as it is.
create_user(username) == users \cup {username}

\* INSERT OR IGNORE INTO watchlist, UNIQUE(user_id, symbol).
add_watch(user_id, symbol) ==
  watchlist \cup {[user_id |-> user_id, symbol |-> Upper(symbol)]}

\* DELETE FROM watchlist WHERE user_id=? AND symbol=?
del_watch(user_id, symbol) ==
  watchlist \ {[user_id |-> user_id, symbol |-> Upper(symbol)]}

\* INSERT INTO posts
add_post(user_id, post_status) ==
  Append(posts, [user_id |-> user_id, status |-> post_status])

\* UPDATE posts SET status=? WHERE id=? AND user_id=?
update_post_status(post_id, user_id, post_status) ==
  Rows([i \in 1..Len(posts) |->
     IF i = post_id /\ posts[i].user_id = user_id
     THEN [posts[i] EXCEPT !.status = post_status]
     ELSE posts[i]])

\* INSERT INTO messages: seen takes its default 0.
add_message(user_id, role) ==
  Append(messages, [user_id |-> user_id, role |-> role, seen |-> 0])

\* UPDATE messages SET seen=1 WHERE role='user' AND seen=0
mark_all_seen ==
  Rows([i \in 1..Len(messages) |->
     IF messages[i].role = "user" /\ messages[i].seen = 0
     THEN [messages[i] EXCEPT !.seen = 1]
     ELSE messages[i]])

\* INSERT INTO inquiries
add_inquiry(user_id) == Append(inquiries, [user_id |-> user_id])

\* INSERT OR IGNORE INTO amfi_watchlist, UNIQUE(user_id, scheme_code).
add_amfi_watch(user_id, scheme_code) ==
  amfi_watchlist \cup {[user_id |-> user_id, scheme_code |-> scheme_code]}

\* DELETE FROM amfi_watchlist WHERE user_id=? AND scheme_code=?
del_amfi_watch(user_id, scheme_code) ==
  amfi_watchlist \ {[user_id |-> user_id, scheme_code |-> scheme_code]}

(***************************************************************************)
(* The store under the writes of several accounts                          *)
(***************************************************************************)
\* Transactions page, lines 237-254, submitted by the logged-in user u with
\* the numbers as entered.
SubmitTransaction ==
  \E u \in StoreUsers, l \in StoreLots :
    /\ Len(ledger) < MaxTx
    /\ ledger' = Append(ledger, insert_tx(u, "a", "stock", "BUY",
                                          l.units, l.price, l.fees))
    /\ UNCHANGED <<runVars, otherTables, amfiVars>>

CreateUser ==
  \E n \in Usernames :
    /\ users' = create_user(n)
    /\ UNCHANGED <<ledger, runVars, amfiVars, watchlist, posts, messages,
                   inquiries, amfi_watchlist>>

AddWatch ==
  \E u \in Users, s \in WatchSymbols :
    /\ watchlist' = add_watch(u, s)
    /\ UNCHANGED <<ledger, runVars, amfiVars, users, posts, messages,
                   inquiries, amfi_watchlist>>

DelWatch ==
  \E u \in Users, s \in WatchSymbols :
    /\ watchlist' = del_watch(u, s)
    /\ UNCHANGED <<ledger, runVars, amfiVars, users, posts, messages,
                   inquiries, amfi_watchlist>>

AddPost ==
  \E u \in Users, st \in PostStatuses :
    /\ Len(posts) < MaxRows
    /\ posts' = add_post(u, st)
    /\ UNCHANGED <<ledger, runVars, amfiVars, users, watchlist, messages,
                   inquiries, amfi_watchlist>>

UpdatePostStatus ==
  \E i \in 1..MaxRows, u \in Users, st \in PostStatuses :
    /\ posts' = update_post_status(i, u, st)
    /\ UNCHANGED <<ledger, runVars, amfiVars, users, watchlist, messages,
                   inquiries, amfi_watchlist>>

AddMessage ==
  \E u \in Users, r \in MessageRoles :
    /\ Len(messages) < MaxRows
    /\ messages' = add_message(u, r)
    /\ UNCHANGED <<ledger, runVars, amfiVars, users, watchlist, posts,
                   inquiries, amfi_watchlist>>

MarkAllSeen ==
  /\ messages' = mark_all_seen
  /\ UNCHANGED <<ledger, runVars, amfiVars, users, watchlist, posts,
                 inquiries, amfi_watchlist>>

AddInquiry ==
  \E u \in Users :
    /\ Len(inquiries) < MaxRows
    /\ inquiries' = add_inquiry(u)
    /\ UNCHANGED <<ledger, runVars, amfiVars, users, watchlist, posts,
                   messages, amfi_watchlist>>

AddAmfiWatch ==
  \E u \in Users, c \in SchemeCodes :
    /\ amfi_watchlist' = add_amfi_watch(u, c)
    /\ UNCHANGED <<ledger, runVars, amfiVars, users, watchlist, posts,
                   messages, inquiries>>

DelAmfiWatch ==
  \E u \in Users, c \in SchemeCodes :
    /\ amfi_watchlist' = del_amfi_watch(u, c)
    /\ UNCHANGED <<ledger, runVars, amfiVars, users, watchlist, posts,
                   messages, inquiries>>

NextStore ==
  \/ SubmitTransaction
  \/ CreateUser
  \/ AddWatch
  \/ DelWatch
  \/ AddPost
  \/ UpdatePostStatus
  \/ AddMessage
  \/ MarkAllSeen
  \/ AddInquiry
  \/ AddAmfiWatch
  \/ DelAmfiWatch

SpecStore == Init /\ [][NextStore]_vars

(***************************************************************************)
(* Reference quantities of the claims, taken over the rows of tx_df        *)
(***************************************************************************)
AcquireKinds == {"BUY", "SIP"}

\* The rows of df of one (symbol, asset_type) key whose kind is in kinds.
KeyRows(df, symbol, asset_type, kinds) ==
  { i \in 1..Len(df) : /\ Upper(df[i].symbol) = symbol
                       /\ df[i].asset_type = asset_type
                       /\ df[i].txn_type \in kinds }

RECURSIVE UnitsOver(_, _)
UnitsOver(df, S) ==
  IF S = {} THEN R(0)
  ELSE LET i == CHOOSE j \in S : TRUE
       IN  RAdd(df[i].units, UnitsOver(df, S \ {i}))

RECURSIVE CostOver(_, _)
CostOver(df, S) ==
  IF S = {} THEN R(0)
  ELSE LET i == CHOOSE j \in S : TRUE
       IN  RAdd(RAdd(RMul(df[i].units, df[i].price), df[i].fees),
                CostOver(df, S \ {i}))

\* df without its i-th row.
Without(df, i) == SubSeq(df, 1, i - 1) \o SubSeq(df, i + 1, Len(df))

SameKey(p, q) == p.symbol = q.symbol /\ p.asset_type = q.asset_type

SameBasis(p, q) ==
  p.units = q.units /\ p.avg_cost = q.avg_cost /\ p.invested = q.invested

Positions == 1..Len(holdings)

\* C1: the units of every Position are the units bought (BUY and SIP alike)
\* minus the units sold of its key; DIV rows add nothing.
C1_NetUnits ==
  status = "ok" =>
    \A j \in Positions :
      LET p == holdings[j]
      IN  p.units =
            RSub(UnitsOver(tx, KeyRows(tx, p.symbol, p.asset_type, AcquireKinds)),
                 UnitsOver(tx, KeyRows(tx, p.symbol, p.asset_type, {"SELL"})))

\* A key with a SIP row and a SELL row that nets to a non-zero quantity.
C1_Witness ==
  /\ status = "ok"
  /\ \E j \in Positions :
       LET p == holdings[j]
       IN  /\ KeyRows(tx, p.symbol, p.asset_type, {"SIP"}) # {}
           /\ KeyRows(tx, p.symbol, p.asset_type, {"SELL"}) # {}
           /\ p.units[1] > 0

\* Every Position shows the invested amount its key has in the frame before.
InvestedKept(before) ==
  \A b \in 1..Len(before) : \A j \in Positions :
    SameKey(before[b], holdings[j]) =>
      holdings[j].invested = before[b].invested

\* C2: invested is the sum of units * price + fees over the BUY and SIP rows
\* of the key (0 without such rows), and the result for a ledger with a SELL
\* row shows, for every key of the ledger without that row, the invested
\* amount computed without it.
C2_Invested ==
  status = "ok" =>
    /\ \A j \in Positions :
         LET p == holdings[j]
             acq == KeyRows(tx, p.symbol, p.asset_type, AcquireKinds)
         IN  /\ p.invested = CostOver(tx, acq)
             /\ acq = {} => p.invested = R(0)
    /\ \A i \in 1..Len(tx) :
         tx[i].txn_type = "SELL" => InvestedKept(NetFrame(Without(tx, i)))

\* A key bought with fees and then sold from.
C2_Witness ==
  /\ status = "ok"
  /\ Len(tx) = 2
  /\ tx[1].txn_type = "BUY" /\ tx[1].fees # R(0) /\ tx[1].units[1] > 0
  /\ tx[2].txn_type = "SELL" /\ tx[2].units[1] > 0
  /\ SameKey(tx[1], tx[2])
  /\ \E j \in Positions : holdings[j].invested = RowCost(tx[1])

\* The ledger of the example: BUY 10 @ 100 with fees 5, then SELL 4 @ 120.
ExampleLedger ==
  << insert_tx(1, "A", "stock", "BUY", 10, 100, 5),
     insert_tx(1, "A", "stock", "SELL", 4, 120, 0) >>

\* avg_cost of Position p, acq being the BUY and SIP rows of its key.
GrossQuotient(p, cost, gross) ==
  IF gross[1] > 0 THEN p.avg_cost = RDiv(cost, gross) ELSE p.avg_cost = R(0)

AvgCostIs(p, acq) == GrossQuotient(p, CostOver(tx, acq), UnitsOver(tx, acq))

\* C3: avg_cost is the cost of the BUY and SIP rows of the key divided by
\* their gross units when those are > 0, and 0 otherwise; the example ledger
\* gives units 6, invested 1005, avg_cost 100.5.
C3_AvgCost ==
  /\ status = "ok" =>
       \A j \in Positions :
         AvgCostIs(holdings[j],
                   KeyRows(tx, holdings[j].symbol, holdings[j].asset_type,
                           AcquireKinds))
  /\ NetFrame(ExampleLedger) =
       << [symbol |-> "A", asset_type |-> "stock", units |-> R(6),
           avg_cost |-> <<201, 2>>, invested |-> R(1005)] >>

\* A key bought and sold whose average cost is not a whole number: the
\* gross units (2) differ from the net units (0).
C3_Witness ==
  /\ status = "ok"
  /\ \E j \in Positions :
       LET p == holdings[j]
       IN  /\ KeyRows(tx, p.symbol, p.asset_type, {"SELL"}) # {}
           /\ p.units = R(0)
           /\ p.avg_cost = <<3, 2>>
           /\ p.invested = R(3)

\* C4: a Position with a price has value = units * last and
\* pnl = (last - avg_cost) * units; pnl_pct = (last / avg_cost - 1) * 100 when
\* avg_cost > 0 and is absent otherwise; last is a price the lookup returned
\* for the symbol.
C4_Priced ==
  status = "ok" =>
    \A j \in Positions :
      LET p == holdings[j]
      IN  ~IsNaN(p.last) =>
            /\ \E k \in 1..Len(snaps) :
                 snaps[k].symbol = p.symbol /\ snaps[k].last = p.last
            /\ p.value = RMul(p.units, p.last)
            /\ p.pnl = RMul(RSub(p.last, p.avg_cost), p.units)
            /\ IF p.avg_cost[1] > 0
               THEN p.pnl_pct =
                      RMul(RSub(RDiv(p.last, p.avg_cost), R(1)), R(100))
               ELSE IsNaN(p.pnl_pct)

\* A priced Position held at a gain: avg_cost 1.5, last 2.
C4_Witness ==
  /\ status = "ok"
  /\ \E j \in Positions :
       LET p == holdings[j]
       IN  /\ p.last = R(2)
           /\ p.avg_cost = <<3, 2>>
           /\ p.units = R(2)
           /\ p.value = R(4)
           /\ p.pnl = R(1)
           /\ p.pnl_pct = <<100, 3>>

\* The (symbol, asset_type) pairs of the rows of df.
KeysOf(df) == { <<Upper(df[i].symbol), df[i].asset_type>> : i \in 1..Len(df) }

PositionsOf(k) ==
  { j \in Positions : holdings[j].symbol = k[1] /\ holdings[j].asset_type = k[2] }

\* C5: a non-empty ledger yields exactly one Position per (symbol,
\* asset_type) pair of the ledger, so a symbol held under two asset types
\* yields exactly two Positions.
C5_OnePositionPerKey ==
  status = "ok" /\ tx # <<>> =>
    /\ \A k \in KeysOf(tx) : Cardinality(PositionsOf(k)) = 1
    /\ \A j \in Positions :
         <<holdings[j].symbol, holdings[j].asset_type>> \in KeysOf(tx)

ValuationAbsent(p) ==
  IsNaN(p.last) /\ IsNaN(p.value) /\ IsNaN(p.pnl) /\ IsNaN(p.pnl_pct)

SnapSymbols == { snaps[k].symbol : k \in 1..Len(snaps) }

\* No round trip for symbol s returned a price.
Unpriced(s) ==
  /\ s \in SnapSymbols
  /\ \A k \in 1..Len(snaps) : snaps[k].symbol = s => IsNaN(snaps[k].last)

\* The answers behind snaps, with a price for every round trip of symbol s.
QuotesWithPrice(s) ==
  [k \in 1..Len(snaps) |->
     IF snaps[k].symbol = s THEN [kind |-> "close", close |-> 2]
     ELSE IF IsNaN(snaps[k].last) THEN [kind |-> "empty", close |-> 0]
     ELSE [kind |-> "close", close |-> snaps[k].last[1]]]

\* holdings against priced, the result of the run in which s has a price.
OnlyValuationLost(s, priced) ==
  /\ Len(priced) = Len(holdings)
  /\ \A j \in Positions :
       IF holdings[j].symbol = s
       THEN /\ ValuationAbsent(holdings[j])
            /\ SameKey(holdings[j], priced[j])
            /\ SameBasis(holdings[j], priced[j])
            /\ ~IsNaN(priced[j].value)
       ELSE holdings[j] = priced[j]

\* C6: when the lookup returns no price for a symbol, last, value, pnl and
\* pnl_pct of its Positions are absent, their units, avg_cost and invested
\* are those of the run in which the symbol has a price, and the Positions
\* of the other symbols are the same as in that run.
C6_MissingPrice ==
  status = "ok" =>
    \A s \in SnapSymbols :
      Unpriced(s) =>
        OnlyValuationLost(s, compute_holdings(tx, QuotesWithPrice(s)).out)

\* Symbol A held at a cost and without a price, next to a priced B.
C6_Witness ==
  /\ status = "ok"
  /\ Unpriced("A")
  /\ \E j \in Positions :
       /\ holdings[j].symbol = "A"
       /\ holdings[j].units[1] > 0
       /\ holdings[j].avg_cost[1] > 0
  /\ \E j \in Positions :
       /\ holdings[j].symbol = "B"
       /\ holdings[j].value[1] > 0

\* C7: a key without BUY and SIP rows and with a price has avg_cost = 0,
\* invested = 0, pnl_pct absent, value = units * last and pnl = last * units,
\* whether or not other keys of the ledger have BUY rows, and the run does
\* not fail.
C7_NoCostBasis ==
  /\ status # "error"
  /\ status = "ok" =>
       \A j \in Positions :
         LET p == holdings[j]
         IN  /\ KeyRows(tx, p.symbol, p.asset_type, AcquireKinds) = {}
             /\ ~IsNaN(p.last)
             => /\ p.avg_cost = R(0)
                /\ p.invested = R(0)
                /\ IsNaN(p.pnl_pct)
                /\ p.value = RMul(p.units, p.last)
                /\ p.pnl = RMul(p.last, p.units)

\* A key that was only sold (net units -2, last 2) in a ledger whose other
\* key was bought.
C7_Witness ==
  /\ status = "ok"
  /\ \E i \in 1..Len(tx) : tx[i].txn_type = "BUY"
  /\ \E j \in Positions :
       LET p == holdings[j]
       IN  /\ KeyRows(tx, p.symbol, p.asset_type, AcquireKinds) = {}
           /\ KeyRows(tx, p.symbol, p.asset_type, {"SELL"}) # {}
           /\ p.units = R(-2)
           /\ p.last = R(2)
           /\ p.value = R(-4)
           /\ p.pnl = R(-4)

\* The column last of the Positions of key k, in output order.
LastOfKey(k) ==
  LastColumn(SelectSeq(holdings,
                       LAMBDA p : p.symbol = k[1] /\ p.asset_type = k[2]))

\* The column last of the rows of snaps for symbol s, in lookup order.
LastOfSymbol(s) ==
  LastColumn(SelectSeq(snaps, LAMBDA r : r.symbol = s))

\* Every row of the frame net has a Position with its cost basis.
BasisReturned(net) ==
  \A b \in 1..Len(net) :
    \E j \in Positions :
      /\ SameKey(net[b], holdings[j])
      /\ SameBasis(net[b], holdings[j])
      /\ ~IsNaN(holdings[j].units)
      /\ ~IsNaN(holdings[j].avg_cost)
      /\ ~IsNaN(holdings[j].invested)

\* C8: no failure of the gateway makes the run fail: whichever round trips
\* fail, every key of the ledger has a Position with the units, avg_cost and
\* invested of its rows, the Positions of a key carry the answers of the
\* round trips for its symbol, and the valuation of a Position is absent
\* exactly when its round trip gave no price.
C8_GatewayFailure ==
  /\ status # "error"
  /\ status = "ok" =>
       /\ BasisReturned(NetFrame(tx))
       /\ \A k \in KeysOf(tx) : LastOfKey(k) = LastOfSymbol(k[1])
       /\ \A j \in Positions :
            IF IsNaN(holdings[j].last)
            THEN ValuationAbsent(holdings[j])
            ELSE ~IsNaN(holdings[j].value) /\ ~IsNaN(holdings[j].pnl)

\* Every round trip of a run over two symbols failed.
C8_Witness ==
  /\ status = "ok"
  /\ SnapSymbols = {"A", "B"}
  /\ Unpriced("A") /\ Unpriced("B")
  /\ Len(holdings) = 2
  /\ \E j \in Positions : holdings[j].invested[1] > 0

\* Every key of the frame before has Positions, all with its cost basis.
BasisKept(before) ==
  \A b \in 1..Len(before) :
    /\ PositionsOf(<<before[b].symbol, before[b].asset_type>>) # {}
    /\ \A j \in PositionsOf(<<before[b].symbol, before[b].asset_type>>) :
         SameBasis(before[b], holdings[j])

\* C9: a DIV row, whatever its units, price and fees, changes nothing: every
\* Position of the ledger without the row has the same units, avg_cost and
\* invested in the result for the ledger with it.
C9_DivFrame ==
  status = "ok" =>
    \A i \in 1..Len(tx) :
      tx[i].txn_type = "DIV" => BasisKept(NetFrame(Without(tx, i)))

\* A DIV row of 2 units at price 1 with fees 1 on a key that was bought.
C9_Witness ==
  /\ status = "ok"
  /\ Len(tx) = 2
  /\ tx[1].txn_type = "BUY" /\ tx[1].units = R(2)
  /\ tx[2].txn_type = "DIV" /\ tx[2].units = R(2) /\ tx[2].fees = R(1)
  /\ SameKey(tx[1], tx[2])
  /\ \E j \in Positions : holdings[j].units = R(2) /\ holdings[j].invested = R(3)

\* C10: a row whose kind is none of BUY, SELL, DIV, SIP adds no units and no
\* cost and does not make the run fail: a key with only such rows has units,
\* avg_cost and invested 0, and every Position of the ledger without the row
\* has the same units, avg_cost and invested with it.
C10_UnknownKind ==
  /\ status # "error"
  /\ status = "ok" =>
       /\ \A j \in Positions :
            LET p == holdings[j]
            IN  KeyRows(tx, p.symbol, p.asset_type, FormTxnTypes) = {} =>
                  p.units = R(0) /\ p.avg_cost = R(0) /\ p.invested = R(0)
       /\ \A i \in 1..Len(tx) :
            tx[i].txn_type \notin FormTxnTypes =>
              BasisKept(NetFrame(Without(tx, i)))

\* A BONUS row of 2 units on a key that was bought.
C10_Witness ==
  /\ status = "ok"
  /\ Len(tx) = 2
  /\ tx[1].txn_type = "BUY" /\ tx[1].units = R(2)
  /\ tx[2].txn_type = "BONUS" /\ tx[2].units = R(2)
  /\ SameKey(tx[1], tx[2])
  /\ \E j \in Positions : holdings[j].units = R(2) /\ holdings[j].invested = R(3)

(***************************************************************************)
(* Symbol case, repeated calls, the empty ledger, the lookup, the figures  *)
(***************************************************************************)
IsUpperCase(s) == s \notin {"a", "b"}

Lower(s) == CASE s = "A" -> "a" [] s = "B" -> "b" [] OTHER -> s

\* df with the symbol of its first row in lower case.
FirstLowered(df) ==
  Rows([i \in 1..Len(df) |->
     IF i = 1 THEN [df[i] EXCEPT !.symbol = Lower(@)] ELSE df[i]])

\* The results of the round trips of the last run, as the lookup gave them.
QuotesOfSnaps ==
  [k \in 1..Len(snaps) |->
     IF IsNaN(snaps[k].last) THEN [kind |-> "empty", close |-> 0]
     ELSE [kind |-> "close", close |-> snaps[k].last[1]]]

\* Case is folded: every symbol insert_tx stored and every symbol of the
\* output is in upper case, the same ledger with a symbol in lower case gives
\* the same Positions, and the units of a Position are summed over the rows
\* of its asset type whose symbols agree with its own up to case.
CaseFolded ==
  /\ \A i \in 1..Len(ledger) : IsUpperCase(ledger[i].symbol)
  /\ status = "ok" =>
       /\ \A j \in Positions : IsUpperCase(holdings[j].symbol)
       /\ compute_holdings(FirstLowered(tx), QuotesOfSnaps).out = holdings
       /\ \A k \in KeysOf(tx) : \A j \in PositionsOf(k) :
            holdings[j].units =
              RSub(UnitsOver(tx, KeyRows(tx, k[1], k[2], AcquireKinds)),
                   UnitsOver(tx, KeyRows(tx, k[1], k[2], {"SELL"})))

\* C11: symbols are stored and returned in upper case, and the rows of one
\* asset type whose symbols differ only in case are summed into one
\* Position.
C11_CaseInsensitive ==
  /\ CaseFolded
  /\ status = "ok" =>
       \A k \in KeysOf(tx) : Cardinality(PositionsOf(k)) = 1

\* A call on frame df answered as in the last run returns what that run got.
SameResult(res) ==
  /\ ~res.error
  /\ res.out = holdings
  /\ res.snaps = snaps
  /\ res.calls = calls

C13_EmptyLedger ==
  status # "idle" /\ ledger = <<>> =>
    status = "ok" /\ holdings = <<>> /\ Len(holdings) = 0

\* The Dashboard run of a user without transactions.
C13_Witness ==
  /\ status = "ok"
  /\ ledger = <<>> /\ tx = <<>>
  /\ holdings = <<>>

\* How often symbol s stands in the list syms.
Occurrences(syms, s) == Cardinality({ i \in 1..Len(syms) : syms[i] = s })

\* C14: a call of compute_holdings on a non-empty ledger calls the lookup
\* exactly once, with a list in which every symbol of the ledger stands
\* exactly once and no other symbol stands, so that the gateway makes one
\* round trip per distinct symbol.
C14_OneDistinctLookup ==
  status = "ok" /\ tx # <<>> =>
    /\ Len(calls) = 1
    /\ \A k \in KeysOf(tx) : Occurrences(calls[1], k[1]) = 1
    /\ \A i \in 1..Len(calls[1]) : \E k \in KeysOf(tx) : calls[1][i] = k[1]
    /\ Len(snaps) = Cardinality({ k[1] : k \in KeysOf(tx) })

\* The sum over the rows S of a column, a missing value counting as 0.
RECURSIVE PresentOver(_, _)
PresentOver(col, S) ==
  IF S = {} THEN R(0)
  ELSE LET i == CHOOSE j \in S : TRUE
       IN  RAdd(IF IsNaN(col[i]) THEN R(0) ELSE col[i],
                PresentOver(col, S \ {i}))

\* C15: the Dashboard's total value, invested amount and total P/L are the
\* sums of value, invested and pnl over the Positions, a missing value
\* counting as 0 (so 0 for no Positions), and its return is a number, which
\* is 0 when the invested amount is 0.
C15_DashboardTotals ==
  status = "ok" =>
    /\ metrics.total_value = PresentOver(ValueColumn(holdings), Positions)
    /\ metrics.invested = PresentOver(InvestedColumn(holdings), Positions)
    /\ metrics.pnl = PresentOver(PnlColumn(holdings), Positions)
    /\ metrics.pnl_pct[2] # 0
    /\ metrics.invested = R(0) => metrics.pnl_pct = R(0)

\* A priced Position next to one without a price: the total value is the
\* value of the first.
C15_Witness ==
  /\ status = "ok"
  /\ Len(holdings) = 2
  /\ IsNaN(holdings[1].value)
  /\ holdings[2].value = R(4)
  /\ metrics.total_value = R(4)
  /\ metrics.invested = R(6)

\* C18: the Positions are in ascending order of symbol.
C18_SortedBySymbol ==
  status = "ok" =>
    \A j \in 1..(Len(holdings) - 1) :
      ~StrLess(holdings[j + 1].symbol, holdings[j].symbol)

\* A Position of A followed by a Position of B.
C18_Witness ==
  /\ status = "ok"
  /\ Len(holdings) = 2
  /\ holdings[1].symbol = "A"
  /\ holdings[2].symbol = "B"

\* C20: when the invested amount is > 0, the Dashboard's return is its total
\* P/L divided by the invested amount, times 100, and so has the sign of the
\* total P/L.
C20_ReturnMatchesPnl ==
  status = "ok" /\ RGtZero(metrics.invested) =>
    /\ metrics.pnl_pct = RMul(RDiv(metrics.pnl, metrics.invested), R(100))
    /\ Sign(metrics.pnl_pct[1]) = Sign(metrics.pnl[1])

(***************************************************************************)
(* The ledger as a store                                                   *)
(***************************************************************************)
\* The rows of the table that were inserted for user u.
RowsFor(u) == { i \in 1..Len(ledger) : ledger[i].user_id = u }

\* fetch_tx(u) returns the rows of u, each as often as it was inserted and
\* as stored, and no row of another user.
LedgerScoped ==
  \A u \in StoreUsers :
    /\ Len(fetch_tx(u)) = Cardinality(RowsFor(u))
    /\ \A j \in 1..Len(fetch_tx(u)) : fetch_tx(u)[j].user_id = u
    /\ \A i \in RowsFor(u) :
         Cardinality({ j \in 1..Len(fetch_tx(u)) : fetch_tx(u)[j] = ledger[i] })
           = Cardinality({ k \in RowsFor(u) : ledger[k] = ledger[i] })

\* One step leaves every row of the table in its place and as it is.
LedgerKept ==
  /\ Len(ledger') >= Len(ledger)
  /\ \A i \in 1..Len(ledger) : ledger'[i] = ledger[i]
  /\ \A u \in StoreUsers :
       \A j \in 1..Len(fetch_tx(u)) :
         \E k \in 1..Len(fetch_tx(u)') : fetch_tx(u)'[k] = fetch_tx(u)[j]

\* C16: under every sequence of writes of db.py the ledger only grows: a row
\* once inserted for user u keeps its fields and is returned by fetch_tx(u)
\* ever after, and fetch_tx(u) returns exactly the rows inserted for u.
C16_AppendOnlyScoped == [](LedgerScoped) /\ [][LedgerKept]_vars

\* Rows of two users in the table, after a post was published and a
\* message marked as seen.
C16_Witness ==
  /\ Len(fetch_tx(1)) >= 1
  /\ Len(fetch_tx(2)) >= 1
  /\ \E i \in 1..Len(posts) : posts[i].status = "published"
  /\ \E i \in 1..Len(messages) : messages[i].seen = 1
  /\ watchlist # {}

\* C17: every row of the ledger has units >= 0.
C17_UnitsNonNegative ==
  \A i \in 1..Len(ledger) : ledger[i].units[1] >= 0

(***************************************************************************)
(* The cache of the NAV table                                              *)
(***************************************************************************)
\* The step is a call of get_amfi_df: the clock is read, not moved.
AmfiCallStep == now' = now /\ amfi_ret'.kind # "none"

\* A call made less than ttl seconds after the time kept with the cached
\* table, without force_refresh, returns that table and downloads nothing.
ServedFromCache ==
  cache.df # NoTable /\ ~amfi_ret'.force /\ now < cache.ts + Ttl =>
    /\ amfi_ret'.kind = "cached"
    /\ amfi_ret'.df = cache.df
    /\ cache' = cache

\* A download is made only without a table, at an age >= ttl, or on
\* force_refresh.
DownloadJustified ==
  amfi_ret'.kind \in {"loaded", "raised"} =>
    \/ cache.df = NoTable
    \/ now - cache.ts >= Ttl
    \/ amfi_ret'.force

\* A successful download is kept with the time of its call, a failed one
\* changes nothing, and a table served from the cache is the cached one.
CacheFollowsCall ==
  /\ amfi_ret'.kind = "loaded" =>
       cache'.df = amfi_ret'.df /\ cache'.ts = now /\ cache'.df # NoTable
  /\ amfi_ret'.kind = "raised" => cache' = cache
  /\ amfi_ret'.kind = "cached" => cache' = cache /\ amfi_ret'.df = cache.df

\* C19: the table loaded by a call at time t is kept with t; every later call
\* without force_refresh at a time before t + ttl (900 s) returns it without
\* a download; a download is made only when there is no table, its age is
\* >= ttl or force_refresh is set; a download that raises leaves the table
\* and its time as they were.
C19_AmfiCache ==
  /\ [](cache.ttl = 900)
  /\ [][AmfiCallStep =>
          ServedFromCache /\ DownloadJustified /\ CacheFollowsCall]_vars

\* A table loaded at 450 and served from the cache at 900, and then a
\* forced download that raised.
C19_Witness ==
  /\ cache.df \in AmfiTables
  /\ cache.ts = StartTime
  /\ amfi_ret.kind = "raised"
  /\ amfi_ret.force
  /\ amfi_ret.at = StartTime + ClockStep

====
